---- MODULE Spec2Model ----
(***************************************************************************)
(* Model of api/chat.js: the FitMon serverless request handler and its     *)
(* sanitizeInput helper.  One behaviour is one invocation of handler: the  *)
(* request is fixed by Init, the handler runs up to its first await        *)
(* (fetch), the upstream service settles the fetch, and the handler runs   *)
(* on to the second await (response.json()) and then to its response.      *)
(*                                                                         *)
(* Strings that the code inspects character by character (input, the       *)
(* sanitized text) are sequences of one-character strings.  JavaScript     *)
(* values are records [t, n, s, o]: the typeof tag, the number, the        *)
(* string and the own properties.                                          *)
(***************************************************************************)
EXTENDS Integers, Sequences, FiniteSets, TLC

VARIABLES
  req,            \* the request: method, headers.origin, body
  pc,             \* where the handler is: start, awaitFetch, awaitJson, done
  resHeaders,     \* headers set on res by res.setHeader
  responses,      \* what res.status(..).json(..) sent, in order
  upstreamCalls,  \* the fetch calls made, in order (the prompt of each)
  sanitized,      \* the handler's local const sanitized
  upstream,       \* what the upstream API did: how the fetch and response.json() settled
  console         \* what console.warn / error / log wrote, in order

vars == <<req, pc, resHeaders, responses, upstreamCalls, sanitized, upstream, console>>

----------------------------------------------------------------------------
(* Bounds of the model *)

\* every string over Alphabet of length 0..MaxCoreLen is a request input
MaxCoreLen == 2

\* inputs are generated up to MAX_INPUT + MaxOver characters
MaxOver == 1

----------------------------------------------------------------------------
(* Program constants *)

MAX_INPUT == 200

MAX_WORKOUT_CAL == 2000

MAX_FOOD_CAL == 3000

\* the end index of .substring(0, 200)
SUBSTRING_END == 200

\* the character U+0060 (grave accent), which a TLA+ string cannot hold
Backtick == "U+0060"

allowedOrigins ==
  << "http://localhost:3000",
     "http://localhost:5000",
     "https://fitmon-six.vercel.app",
     "https://fitmon-david-fierros-projects-de8eae2f.vercel.app",
     "https://fitmon-git-master-david-fierros-projects-de8eae2f.vercel.app" >>

suspiciousPatterns ==
  << <<"i","g","n","o","r","e"," ","p","r","e","v","i","o","u","s">>,
     <<"i","g","n","o","r","e"," ","a","b","o","v","e">>,
     <<"d","i","s","r","e","g","a","r","d">>,
     <<"f","o","r","g","e","t">>,
     <<"s","y","s","t","e","m",":">>,
     <<"a","s","s","i","s","t","a","n","t",":">>,
     <<"u","s","e","r",":">>,
     <<Backtick, Backtick, Backtick>>,
     <<"i","n","s","t","r","u","c","t","i","o","n","s",":">>,
     <<"n","e","w"," ","r","u","l","e","s">> >>

\* the safe default returned on a blocklist match
FoodItem == <<"f","o","o","d"," ","i","t","e","m">>

\* the character class of /[<>{}[\]\\]/g
StructuralChars == {"<", ">", "{", "}", "[", "]", "\\"}

\* white space removed by String.prototype.trim (the part that occurs here)
WhiteSpace == {" ", "\t", "\n", "\r"}

----------------------------------------------------------------------------
(* String operations used by sanitizeInput *)

UpperChars ==
  <<"A","B","C","D","E","F","G","H","I","J","K","L","M",
    "N","O","P","Q","R","S","T","U","V","W","X","Y","Z">>

LowerChars ==
  <<"a","b","c","d","e","f","g","h","i","j","k","l","m",
    "n","o","p","q","r","s","t","u","v","w","x","y","z">>

toLowerChar(c) ==
  IF \E i \in 1..Len(UpperChars) : UpperChars[i] = c
  THEN LowerChars[CHOOSE i \in 1..Len(UpperChars) : UpperChars[i] = c]
  ELSE c

toLowerCase(s) == [i \in 1..Len(s) |-> toLowerChar(s[i])]

\* String.prototype.includes
includes(s, pattern) ==
  \E i \in 0..(Len(s) - Len(pattern)) :
     \A j \in 1..Len(pattern) : s[i + j] = pattern[j]

\* String.prototype.replace(/[<>{}[\]\\]/g, '')
replaceStructural(s) == SelectSeq(s, LAMBDA c : c \notin StructuralChars)

\* String.prototype.substring(0, n)
substring0(s, n) == IF Len(s) <= n THEN s ELSE SubSeq(s, 1, n)

RECURSIVE trimStart(_)
trimStart(s) ==
  IF s = <<>> \/ Head(s) \notin WhiteSpace THEN s ELSE trimStart(Tail(s))

RECURSIVE trimEnd(_)
trimEnd(s) ==
  IF s = <<>> \/ s[Len(s)] \notin WhiteSpace THEN s
  ELSE trimEnd(SubSeq(s, 1, Len(s) - 1))

trim(s) == trimEnd(trimStart(s))

\* mutant: the scan is made on the input as typed, not lower-cased
matchesBlocklist_CaseSensitive(input) ==
  \E k \in 1..Len(suspiciousPatterns) : includes(input, suspiciousPatterns[k])

\* the blocklist scan of sanitizeInput: lower.includes(pattern) for some pattern
matchesBlocklist(input) ==
  LET lower == toLowerCase(input)
  IN  \E k \in 1..Len(suspiciousPatterns) : includes(lower, suspiciousPatterns[k])

sanitizeInput(input) ==
  IF matchesBlocklist(input)
  THEN FoodItem
  ELSE trim(substring0(replaceStructural(input), SUBSTRING_END))

----------------------------------------------------------------------------
(* JavaScript values *)

NoProps == [k \in {} |-> 0]

\* a value: typeof-like tag t, number n, string s, own properties o
JSValue(t, n, s, o) == [t |-> t, n |-> n, s |-> s, o |-> o]

Undefined == JSValue("undefined", 0, "", NoProps)

Null == JSValue("null", 0, "", NoProps)

Num(n) == JSValue("number", n, "", NoProps)

Str(s) == JSValue("string", 0, s, NoProps)

True == JSValue("boolean", 1, "", NoProps)

\* an array; it has none of the named properties the handler reads
Array == JSValue("array", 0, "", NoProps)

Obj(o) == JSValue("object", 0, "", o)

\* ToBoolean, as used by !x, x && y, x || y
Truthy(v) ==
  CASE v.t \in {"undefined", "null"} -> FALSE
    [] v.t \in {"number", "boolean"} -> v.n # 0
    [] v.t = "string" -> v.s # ""
    [] OTHER -> TRUE

\* v.k for a v that is neither null nor undefined
Get(v, k) == IF k \in DOMAIN v.o THEN v.o[k] ELSE Undefined

\* the value of req.body.input: its string is a sequence of characters
InputValue(t, n, chars) == [t |-> t, n |-> n, chars |-> chars]

InputUndefined == InputValue("undefined", 0, <<>>)

InputString(chars) == InputValue("string", 0, chars)

\* !input
InputFalsy(v) ==
  CASE v.t \in {"undefined", "null"} -> TRUE
    [] v.t \in {"number", "boolean"} -> v.n = 0
    [] v.t = "string" -> v.chars = <<>>
    [] OTHER -> FALSE

----------------------------------------------------------------------------
(* The handler, piece by piece *)

\* res.status(code).json({ error: message })
ErrorResponse(code, message) ==
  [status |-> code, body |-> Obj([error |-> Str(message)])]

NoHeaders == [k \in {} |-> ""]

\* res.setHeader(name, value)
setHeader(h, name, value) ==
  [k \in (DOMAIN h) \cup {name} |-> IF k = name THEN value ELSE h[k]]

\* req.method !== 'POST'
methodRejected(method) == method # "POST"

\* mutant: any declared origin is let through
originAllowed_AnyOrigin(origin) == Truthy(origin)

\* origin && allowedOrigins.includes(origin)
originAllowed(origin) ==
  Truthy(origin) /\ \E i \in 1..Len(allowedOrigins) : allowedOrigins[i] = origin.s

\* else if (origin)
originRejected(origin) == ~originAllowed(origin) /\ Truthy(origin)

\* mutant: the origin is echoed without consulting the allow-list
corsHeaders_EchoAny(origin) ==
  LET h1 == setHeader(NoHeaders, "Access-Control-Allow-Origin", origin.s)
      h2 == setHeader(h1, "Access-Control-Allow-Methods", "POST")
  IN  setHeader(h2, "Access-Control-Allow-Headers", "Content-Type")

\* the headers on res once the handler is past the origin check
corsHeaders(origin) ==
  LET h1 == IF originAllowed(origin)
            THEN setHeader(NoHeaders, "Access-Control-Allow-Origin", origin.s)
            ELSE NoHeaders
      h2 == setHeader(h1, "Access-Control-Allow-Methods", "POST")
  IN  setHeader(h2, "Access-Control-Allow-Headers", "Content-Type")

\* const { input, type } = req.body || {}
bodyInput(body) == IF body.t = "object" THEN body.input ELSE InputUndefined

bodyType(body) == IF body.t = "object" THEN body.type ELSE Undefined

\* ['workout', 'food'].includes(type)
typeAllowed(type) == type.t = "string" /\ type.s \in {"workout", "food"}

\* mutant: the length check is missing
validateBody_NoLength(input, type) ==
  IF InputFalsy(input) \/ input.t # "string" THEN "Invalid input"
  ELSE IF ~typeAllowed(type) THEN "Invalid type"
  ELSE ""

\* mutant: the type is checked before the length
validateBody_TypeFirst(input, type) ==
  IF InputFalsy(input) \/ input.t # "string" THEN "Invalid input"
  ELSE IF ~typeAllowed(type) THEN "Invalid type"
  ELSE IF Len(input.chars) > MAX_INPUT THEN "Input too long (max 200 characters)"
  ELSE ""

\* the three input checks: the message of the first that fails, "" when none does
validateBody(input, type) ==
  IF InputFalsy(input) \/ input.t # "string" THEN "Invalid input"
  ELSE IF Len(input.chars) > MAX_INPUT THEN "Input too long (max 200 characters)"
  ELSE IF ~typeAllowed(type) THEN "Invalid type"
  ELSE ""

\* prompts[type]: a fixed template for the type with sanitized put between quotes
prompts(type, text) ==
  [template |-> IF type = "workout" THEN "Extract exercise data from" ELSE "Extract nutrition from",
   embedded |-> text]

\* the request body handed to fetch
fetchRequest(type, text) ==
  [url |-> "https://api.anthropic.com/v1/messages",
   model |-> "claude-3-haiku-20240307",
   content |-> prompts(type, text)]

\* mutant: only server errors count as failures
responseOk_Below500(status) == status < 500

\* response.ok
responseOk(status) == status \in 200..299

\* data.content[0].text: "throw" where reading it raises a TypeError
contentText(data) ==
  IF data.shape \in {"null", "noContent", "emptyContent"}
  THEN [kind |-> "throw", error |-> "TypeError: Cannot read properties of undefined"]
  ELSE [kind |-> "value", text |-> data.text]

\* JSON.parse(text): a SyntaxError unless text is a string of JSON
JSONparse(text) ==
  IF text.defined /\ text.parses
  THEN [kind |-> "value", value |-> text.value]
  ELSE [kind |-> "throw", error |-> "SyntaxError: Unexpected token"]

\* mutant: the cap is not applied
MathMin_First(a, b) == a

\* Math.min on the numbers of the model
MathMin(a, b) == IF a < b THEN a ELSE b

\* mutant: the calorie field is not checked to be a number
checkAndClamp_NoTypeof(result, name, cal, max, message) ==
  IF result.t \in {"null", "undefined"}
  THEN [kind |-> "throw", error |-> "TypeError: Cannot read properties of null"]
  ELSE IF Truthy(Get(result, "error"))
  THEN [kind |-> "value", value |-> result]
  ELSE IF ~Truthy(Get(result, name)) \/ cal \notin DOMAIN result.o
  THEN [kind |-> "respond", response |-> ErrorResponse(500, message)]
  ELSE [kind |-> "value",
        value |-> Obj([result.o EXCEPT ![cal] = Num(MathMin(result.o[cal].n, max))])]

\* the shape check and the clamp of one type: name is the required field,
\* cal the calorie field, max its cap, message the error of a failed check
checkAndClamp(result, name, cal, max, message) ==
  IF result.t \in {"null", "undefined"}
  THEN [kind |-> "throw", error |-> "TypeError: Cannot read properties of null"]
  ELSE IF Truthy(Get(result, "error"))
  THEN [kind |-> "value", value |-> result]
  ELSE IF ~Truthy(Get(result, name)) \/ Get(result, cal).t # "number"
  THEN [kind |-> "respond", response |-> ErrorResponse(500, message)]
  ELSE [kind |-> "value",
        value |-> Obj([result.o EXCEPT ![cal] = Num(MathMin(result.o[cal].n, max))])]

\* if (type === 'workout' && ...) {...} if (type === 'food' && ...) {...}
validateResult(type, result) ==
  IF type = "workout"
  THEN checkAndClamp(result, "activity", "calories_burned", MAX_WORKOUT_CAL, "Invalid workout data")
  ELSE checkAndClamp(result, "food", "calories", MAX_FOOD_CAL, "Invalid food data")

\* mutant: the message of the exception is sent to the caller
catchError_Leak(error) == ErrorResponse(500, error)

\* catch (error) of the outer try
catchError(error) == ErrorResponse(500, "Analysis failed")

\* result.calories || result.calories_burned || 0
loggedCalories(result) ==
  IF Truthy(Get(result, "calories")) THEN Get(result, "calories")
  ELSE IF Truthy(Get(result, "calories_burned")) THEN Get(result, "calories_burned")
  ELSE Num(0)

----------------------------------------------------------------------------
(* The requests and the upstream replies of the model *)

Alphabet == {"a", "<", " ", Backtick}

RECURSIVE StringsUpTo(_)
StringsUpTo(n) ==
  IF n = 0 THEN {<<>>}
  ELSE LET shorter == StringsUpTo(n - 1)
       IN  shorter \cup {Append(w, c) : w \in shorter, c \in Alphabet}

\* core followed by as many "a" as bring it to n characters
PadTo(core, n) == core \o [i \in 1..(n - Len(core)) |-> "a"]

SampleInputs ==
  { <<"r","a","n"," ","5"," ","m","i","l","e","s">>,
    <<"s","y","s","<","t","e","m",":">>,
    <<"i","g","n","o","r","e"," ","[","p","r","e","v","i","o","u","s">>,
    <<"F","O","R","G","E","T"," ","i","t">>,
    <<"U","s","e","r",":"," ","h","i">>,
    <<Backtick, Backtick, "<", Backtick>>,
    <<Backtick, Backtick, Backtick, "j","s">>,
    <<" ","[","2"," ","e","g","g","s","]"," ">>,
    <<"n","e","w"," ","r","u","l","e","s">> }

LongCores ==
  { <<"a">>, <<"<"," ","a">>, <<"f","o","r","g","e","t"," ">> }

LongInputs ==
  { PadTo(core, n) : core \in LongCores, n \in MAX_INPUT..(MAX_INPUT + MaxOver) }

InputStrings == StringsUpTo(MaxCoreLen) \cup SampleInputs \cup LongInputs

Inputs ==
  { InputString(w) : w \in InputStrings }
  \cup { InputUndefined, InputValue("null", 0, <<>>), InputValue("number", 0, <<>>),
         InputValue("number", 42, <<>>), InputValue("boolean", 1, <<>>),
         InputValue("array", 0, <<>>) }

Types ==
  { Undefined, Str("workout"), Str("food"), Str("Workout"), Str(""), Num(1), Array }

Bodies ==
  { [t |-> "undefined", input |-> InputUndefined, type |-> Undefined],
    [t |-> "string", input |-> InputUndefined, type |-> Undefined] }
  \cup { [t |-> "object", input |-> i, type |-> ty] : i \in Inputs, ty \in Types }

Methods == {"POST", "GET", "OPTIONS"}

Origins ==
  { Undefined, Str(""), Str("https://evil.example"), Str("http://localhost:3000/") }
  \cup { Str(allowedOrigins[i]) : i \in 1..Len(allowedOrigins) }

Requests ==
  { [method |-> m, origin |-> og, body |-> b] : m \in Methods, og \in Origins, b \in Bodies }

\* HTTP statuses the upstream API answers with
UpstreamStatuses == {200, 401, 429, 500}

NameValues == {Undefined, Str(""), Str("name")}

ErrorValues == {Undefined, Str(""), Str("Please describe food or exercise only")}

WorkoutReplies ==
  { Obj([k \in {"error", "activity", "calories_burned", "duration_minutes"} \ absent |->
           CASE k = "error" -> e
             [] k = "activity" -> a
             [] k = "calories_burned" -> c
             [] OTHER -> Num(30)]) :
      e \in ErrorValues \ {Undefined}, a \in NameValues \ {Undefined},
      c \in {Str("5000"), Num(300), Num(2000), Num(5000)},
      absent \in SUBSET {"error", "activity", "calories_burned"} }

FoodReplies ==
  { Obj([k \in {"error", "food", "calories", "protein"} \ absent |->
           CASE k = "error" -> e
             [] k = "food" -> a
             [] k = "calories" -> c
             [] OTHER -> Num(12)]) :
      e \in ErrorValues \ {Undefined}, a \in NameValues \ {Undefined},
      c \in {Str("10000"), Num(650), Num(3000), Num(10000)},
      absent \in SUBSET {"error", "food", "calories"} }

\* replies that carry the fields of both types
MixedReplies ==
  { Obj([activity |-> Str("name"), calories_burned |-> Num(2500),
         food |-> Str("name"), calories |-> Num(3500)]) }

ParsedReplies ==
  WorkoutReplies \cup FoodReplies \cup MixedReplies
  \cup {Null, Num(5), Str("running"), True, Array}

NoText == [defined |-> FALSE, parses |-> FALSE, value |-> Undefined]

\* text of content[0]: absent, not JSON, or JSON for a value
Texts ==
  { NoText,
    [defined |-> TRUE, parses |-> FALSE, value |-> Undefined] }
  \cup { [defined |-> TRUE, parses |-> TRUE, value |-> v] : v \in ParsedReplies }

\* what response.json() resolves with: null, {}, {content: []},
\* {content: [{}]} and {content: [{text: ...}]}
Envelopes ==
  { [shape |-> sh, text |-> NoText] : sh \in {"null", "noContent", "emptyContent"} }
  \cup { [shape |-> "content", text |-> t] : t \in Texts }

NoData == [shape |-> "none", text |-> NoText]

\* fetch and json are "pending", "rejected" or "resolved"
NoResponse == [fetch |-> "pending", status |-> 0, json |-> "pending", data |-> NoData]

----------------------------------------------------------------------------
(* The state machine *)

Init ==
  /\ req \in Requests
  /\ pc = "start"
  /\ resHeaders = NoHeaders
  /\ responses = <<>>
  /\ upstreamCalls = <<>>
  /\ sanitized = <<>>
  /\ upstream = NoResponse
  /\ console = <<>>

\* return res.status(..).json(..)
Respond(r) ==
  /\ responses' = Append(responses, r)
  /\ pc' = "done"

\* lines 3-88: from entry to the await of fetch, or to an early return
HandlerStart ==
  /\ pc = "start"
  /\ LET origin == req.origin
         input == bodyInput(req.body)
         type == bodyType(req.body)
         invalid == validateBody(input, type)
     IN  IF methodRejected(req.method)
         THEN /\ Respond(ErrorResponse(405, "Method not allowed"))
              /\ UNCHANGED <<resHeaders, upstreamCalls, sanitized, console>>
         ELSE IF originRejected(origin)
         THEN /\ console' = Append(console, <<"warn", "Unauthorized origin blocked", origin.s>>)
              /\ Respond(ErrorResponse(403, "Origin not allowed"))
              /\ UNCHANGED <<resHeaders, upstreamCalls, sanitized>>
         ELSE IF invalid # ""
         THEN /\ resHeaders' = corsHeaders(origin)
              /\ Respond(ErrorResponse(400, invalid))
              /\ UNCHANGED <<upstreamCalls, sanitized, console>>
         ELSE /\ resHeaders' = corsHeaders(origin)
              /\ sanitized' = sanitizeInput(input.chars)
              /\ upstreamCalls' = Append(upstreamCalls, fetchRequest(type.s, sanitized'))
              /\ pc' = "awaitFetch"
              /\ UNCHANGED <<responses, console>>
  /\ UNCHANGED <<req, upstream>>

\* the fetch rejects (network failure): the outer catch answers
FetchRejects ==
  /\ pc = "awaitFetch"
  /\ \E error \in {"TypeError: fetch failed"} :
       /\ console' = Append(console, <<"error", "Error calling Claude", error>>)
       /\ Respond(catchError(error))
  /\ upstream' = [upstream EXCEPT !.fetch = "rejected"]
  /\ UNCHANGED <<req, resHeaders, upstreamCalls, sanitized>>

\* lines 88-95: the fetch resolves; a non-ok status is answered at once
FetchResolves ==
  /\ pc = "awaitFetch"
  /\ \E status \in UpstreamStatuses :
       /\ upstream' = [upstream EXCEPT !.fetch = "resolved", !.status = status]
       /\ IF ~responseOk(status)
          THEN /\ console' = Append(console, <<"error", "Claude API error", status>>)
               /\ Respond(ErrorResponse(500, "Analysis service unavailable"))
          ELSE /\ pc' = "awaitJson"
               /\ UNCHANGED <<responses, console>>
  /\ UNCHANGED <<req, resHeaders, upstreamCalls, sanitized>>

\* response.json() rejects (the envelope is not JSON): the outer catch answers
JsonRejects ==
  /\ pc = "awaitJson"
  /\ \E error \in {"SyntaxError: Unexpected end of JSON input"} :
       /\ console' = Append(console, <<"error", "Error calling Claude", error>>)
       /\ Respond(catchError(error))
  /\ upstream' = [upstream EXCEPT !.json = "rejected"]
  /\ UNCHANGED <<req, resHeaders, upstreamCalls, sanitized>>

\* lines 95-131: response.json() resolves with data; parse, validate, answer
JsonResolves ==
  /\ pc = "awaitJson"
  /\ \E data \in Envelopes :
       LET type == bodyType(req.body).s
           text == contentText(data)
           parsed == IF text.kind = "throw" THEN text ELSE JSONparse(text.text)
           checked == validateResult(type, parsed.value)
       IN  /\ upstream' = [upstream EXCEPT !.json = "resolved", !.data = data]
           /\ IF parsed.kind = "throw"
              THEN \* the inner catch logs data.content[0].text, which throws
                   \* again when reading it threw
                   IF text.kind = "throw"
                   THEN /\ console' = Append(console, <<"error", "Error calling Claude", text.error>>)
                        /\ Respond(catchError(text.error))
                   ELSE /\ console' = Append(console, <<"error", "Failed to parse Claude response", data.text>>)
                        /\ Respond(ErrorResponse(500, "Invalid response format"))
              ELSE IF checked.kind = "throw"
              THEN /\ console' = Append(console, <<"error", "Error calling Claude", checked.error>>)
                   /\ Respond(catchError(checked.error))
              ELSE IF checked.kind = "respond"
              THEN /\ Respond(checked.response)
                   /\ UNCHANGED console
              ELSE /\ console' = Append(console,
                          <<"log", type, substring0(sanitized, 50), loggedCalories(checked.value)>>)
                   /\ Respond([status |-> 200, body |-> checked.value])
  /\ UNCHANGED <<req, resHeaders, upstreamCalls, sanitized>>

Next ==
  \/ HandlerStart
  \/ FetchRejects
  \/ FetchResolves
  \/ JsonRejects
  \/ JsonResolves

Spec == Init /\ [][Next]_vars

----------------------------------------------------------------------------
(* Vocabulary of the properties *)

AllowList == {allowedOrigins[i] : i \in 1..Len(allowedOrigins)}

\* the Origin header is one of the allowed origins
OriginListed == req.origin.t = "string" /\ req.origin.s \in AllowList

\* the request declares no origin: the header is missing or empty
OriginAbsent == req.origin.t = "undefined" \/ (req.origin.t = "string" /\ req.origin.s = "")

\* the Origin header is some other non-empty value
OriginOther == req.origin.t = "string" /\ req.origin.s # "" /\ req.origin.s \notin AllowList

ReqInput == bodyInput(req.body)

ReqType == bodyType(req.body)

\* input is a string of 1 to 200 characters
InputIsString == ReqInput.t = "string" /\ Len(ReqInput.chars) >= 1

InputOk == InputIsString /\ Len(ReqInput.chars) <= 200

TypeOk == ReqType.t = "string" /\ ReqType.s \in {"workout", "food"}

Done == pc = "done"

\* the response of a finished request
Status == responses[1].status

Body == responses[1].body

ErrorIs(message) == Body = Obj([error |-> Str(message)])

CorsNames ==
  {"Access-Control-Allow-Origin", "Access-Control-Allow-Methods", "Access-Control-Allow-Headers"}

----------------------------------------------------------------------------
\* C1: the upstream API is called at most once per request, and only for a
\* POST request with no origin or an allowed origin, an input that is a string
\* of 1 to 200 characters and a type of "workout" or "food"; a request answered
\* 405, 403 or 400 has made no upstream call.
C1_UpstreamOnceOnlyWhenValid ==
  /\ Len(upstreamCalls) <= 1
  /\ upstreamCalls # <<>> =>
       /\ req.method = "POST"
       /\ OriginAbsent \/ OriginListed
       /\ InputOk
       /\ TypeOk
  /\ \A i \in 1..Len(responses) :
       responses[i].status \in {405, 403, 400} => upstreamCalls = <<>>

\* a valid request went upstream once and was answered 200
C1_Witness == Done /\ Len(upstreamCalls) = 1 /\ Status = 200 /\ InputOk /\ TypeOk

\* C2 as stated: an allowed origin is echoed in Access-Control-Allow-Origin
\* whatever the method and body, and any other non-empty origin is answered
\* 403 with no upstream call.
C2_AnyMethod ==
  Done =>
    /\ OriginListed =>
         /\ "Access-Control-Allow-Origin" \in DOMAIN resHeaders
         /\ resHeaders["Access-Control-Allow-Origin"] = req.origin.s
    /\ OriginOther => Status = 403 /\ upstreamCalls = <<>>

\* C2 amended: for POST requests, an allowed origin is echoed in
\* Access-Control-Allow-Origin whatever the body, and any other non-empty
\* origin is answered 403 with no upstream call.
C2_PostOnly ==
  (Done /\ req.method = "POST") =>
    /\ OriginListed =>
         /\ "Access-Control-Allow-Origin" \in DOMAIN resHeaders
         /\ resHeaders["Access-Control-Allow-Origin"] = req.origin.s
    /\ OriginOther => Status = 403 /\ upstreamCalls = <<>>

\* a POST from an allowed origin with a bad body: answered 400, origin echoed
C2_Witness ==
  /\ Done /\ req.method = "POST" /\ OriginListed /\ Status = 400
  /\ "Access-Control-Allow-Origin" \in DOMAIN resHeaders

\* C3 as stated: the three CORS headers are set only when the origin is in the
\* allow-list, and a POST without Origin goes on to body validation and its
\* response has none of the three.
C3_NoCorsWithoutOrigin ==
  /\ (DOMAIN resHeaders) \cap CorsNames # {} => OriginListed
  /\ (Done /\ req.method = "POST" /\ req.origin.t = "undefined") =>
       /\ Status \notin {405, 403}
       /\ (DOMAIN resHeaders) \cap CorsNames = {}

\* C3 amended: Access-Control-Allow-Origin is set only when the origin is in
\* the allow-list; Allow-Methods and Allow-Headers are set on every POST that
\* passes the origin check, so a POST without Origin goes on to body validation
\* and its response has those two headers and no Access-Control-Allow-Origin.
C3_AllowOriginOnlyWhenListed ==
  /\ "Access-Control-Allow-Origin" \in DOMAIN resHeaders => OriginListed
  /\ (DOMAIN resHeaders) \cap CorsNames # {} => (OriginListed \/ OriginAbsent)
  /\ (Done /\ req.method = "POST" /\ req.origin.t = "undefined") =>
       /\ Status \notin {405, 403}
       /\ DOMAIN resHeaders = {"Access-Control-Allow-Methods", "Access-Control-Allow-Headers"}
       /\ resHeaders["Access-Control-Allow-Methods"] = "POST"
       /\ resHeaders["Access-Control-Allow-Headers"] = "Content-Type"

\* a POST without Origin that reached body validation
C3_Witness ==
  /\ Done /\ req.method = "POST" /\ req.origin.t = "undefined" /\ Status = 400
  /\ "Access-Control-Allow-Methods" \in DOMAIN resHeaders

\* C4: for a POST with no origin or an allowed origin, the status is 400 exactly
\* when input is not a string of 1 to 200 characters or type is not "workout" or
\* "food", and the message is that of the first failing check in the order
\* input presence/type, input length, type value.
C4_BodyValidation ==
  (Done /\ req.method = "POST" /\ (OriginAbsent \/ OriginListed)) =>
    /\ Status = 400 <=> (~InputOk \/ ~TypeOk)
    /\ ~InputIsString => (Status = 400 /\ ErrorIs("Invalid input"))
    /\ (InputIsString /\ ~InputOk) =>
         (Status = 400 /\ ErrorIs("Input too long (max 200 characters)"))
    /\ (InputOk /\ ~TypeOk) => (Status = 400 /\ ErrorIs("Invalid type"))

\* an input of more than 200 characters with a bad type: the length is reported
C4_Witness ==
  /\ Done /\ req.method = "POST" /\ OriginAbsent
  /\ InputIsString /\ Len(ReqInput.chars) > 200 /\ ~TypeOk
  /\ ErrorIs("Input too long (max 200 characters)")

----------------------------------------------------------------------------
\* a and b are the same character up to letter case
SameLetter(a, b) ==
  \/ a = b
  \/ \E i \in 1..Len(UpperChars) : {a, b} = {UpperChars[i], LowerChars[i]}

\* w contains pattern, case-insensitively
ContainsIgnoringCase(w, pattern) ==
  \E i \in 0..(Len(w) - Len(pattern)) :
     \A j \in 1..Len(pattern) : SameLetter(w[i + j], pattern[j])

\* w contains one of the blocklisted substrings, case-insensitively
Blocklisted(w) ==
  \E k \in 1..Len(suspiciousPatterns) : ContainsIgnoringCase(w, suspiciousPatterns[k])

\* the text embedded in the prompt that went upstream
Embedded == upstreamCalls[1].content.embedded

\* C5: an input string that contains a blocklisted substring, in any letter
\* case, is sanitized to exactly "food item", and "food item" is then the only
\* text of the user's in the prompt sent upstream.
C5_BlocklistedBecomesFoodItem ==
  (ReqInput.t = "string" /\ Blocklisted(ReqInput.chars)) =>
    /\ sanitizeInput(ReqInput.chars) = FoodItem
    /\ upstreamCalls # <<>> => (sanitized = FoodItem /\ Embedded = FoodItem)

\* an input with a blocklisted term in upper case went upstream as "food item"
C5_Witness ==
  /\ upstreamCalls # <<>> /\ Embedded = FoodItem
  /\ ~includes(ReqInput.chars, suspiciousPatterns[4])
  /\ ContainsIgnoringCase(ReqInput.chars, suspiciousPatterns[4])

\* the reply the upstream text parsed to, when the request got that far
Replied ==
  /\ Done /\ upstream.json = "resolved"
  /\ upstream.data.shape = "content" /\ upstream.data.text.defined /\ upstream.data.text.parses

Reply == upstream.data.text.value

IsNumber(v) == v.t = "number"

HasNoError(v) == ~Truthy(Get(v, "error"))

\* C6 as stated, read of the responses that carry a result: a 200 response to
\* a workout reply with calories_burned above 2000 has calories_burned 2000, a
\* 200 response to a food reply with calories above 3000 has calories 3000,
\* and no 200 response carries more than these.
C6_AlwaysClamped ==
  /\ (Replied /\ Status = 200 /\ ReqType.s = "workout"
        /\ IsNumber(Get(Reply, "calories_burned")) /\ Get(Reply, "calories_burned").n > 2000)
       => Get(Body, "calories_burned") = Num(2000)
  /\ (Replied /\ Status = 200 /\ ReqType.s = "food"
        /\ IsNumber(Get(Reply, "calories")) /\ Get(Reply, "calories").n > 3000)
       => Get(Body, "calories") = Num(3000)
  /\ (Done /\ Status = 200 /\ ReqType.s = "workout" /\ IsNumber(Get(Body, "calories_burned")))
       => Get(Body, "calories_burned").n <= 2000
  /\ (Done /\ Status = 200 /\ ReqType.s = "food" /\ IsNumber(Get(Body, "calories")))
       => Get(Body, "calories").n <= 3000

\* C6 amended: a workout reply without a truthy error field, with a truthy
\* activity and calories_burned above 2000 is answered 200 with calories_burned
\* 2000; a food reply without a truthy error field, with a truthy food and
\* calories above 3000 is answered 200 with calories 3000; no 200 response
\* whose body has no truthy error field carries more than these.
C6_ClampedUnlessError ==
  /\ (Replied /\ ReqType.s = "workout" /\ HasNoError(Reply) /\ Truthy(Get(Reply, "activity"))
        /\ IsNumber(Get(Reply, "calories_burned")) /\ Get(Reply, "calories_burned").n > 2000)
       => (Status = 200 /\ Get(Body, "calories_burned") = Num(2000))
  /\ (Replied /\ ReqType.s = "food" /\ HasNoError(Reply) /\ Truthy(Get(Reply, "food"))
        /\ IsNumber(Get(Reply, "calories")) /\ Get(Reply, "calories").n > 3000)
       => (Status = 200 /\ Get(Body, "calories") = Num(3000))
  /\ (Done /\ Status = 200 /\ HasNoError(Body) /\ ReqType.s = "workout")
       => (IsNumber(Get(Body, "calories_burned")) /\ Get(Body, "calories_burned").n <= 2000)
  /\ (Done /\ Status = 200 /\ HasNoError(Body) /\ ReqType.s = "food")
       => (IsNumber(Get(Body, "calories")) /\ Get(Body, "calories").n <= 3000)

\* a workout reply of 5000 calories_burned answered with 2000
C6_Witness ==
  /\ Replied /\ ReqType.s = "workout" /\ Get(Reply, "calories_burned") = Num(5000)
  /\ Status = 200 /\ Get(Body, "calories_burned") = Num(2000)

FixedMessages ==
  { "Method not allowed", "Origin not allowed", "Invalid input",
    "Input too long (max 200 characters)", "Invalid type",
    "Analysis service unavailable", "Invalid response format",
    "Invalid workout data", "Invalid food data", "Analysis failed" }

\* C7: every response whose status is not 200 has a body that is an object
\* with the single field error, a string from the fixed set of messages; so
\* nothing of the upstream reply, the upstream status or a caught exception is
\* in the body of an error response.
C7_ErrorBodiesFixed ==
  \A i \in 1..Len(responses) :
    responses[i].status # 200 =>
      /\ responses[i].status \in {405, 403, 400, 500}
      /\ responses[i].body.t = "object"
      /\ DOMAIN responses[i].body.o = {"error"}
      /\ responses[i].body.o["error"].t = "string"
      /\ responses[i].body.o["error"].s \in FixedMessages

\* the fetch threw and the answer is the fixed "Analysis failed"
C7_Witness ==
  Done /\ upstream.fetch = "rejected" /\ Status = 500 /\ ErrorIs("Analysis failed")

----------------------------------------------------------------------------
\* every request is answered exactly once: never two responses, one response
\* when the handler is done, and a handler that is not done can always go on
AnsweredOnce ==
  /\ Len(responses) <= 1
  /\ Done <=> Len(responses) = 1
  /\ ~Done => ENABLED Next

\* the classification of upstream failures that both readings of C8 share
FailuresClassified ==
  /\ (Done /\ upstream.fetch = "resolved" /\ upstream.status \notin 200..299)
       => (Status = 500 /\ ErrorIs("Analysis service unavailable"))
  /\ (Done /\ upstream.json = "resolved" /\ upstream.data.shape = "content"
        /\ upstream.data.text.defined /\ ~upstream.data.text.parses)
       => (Status = 500 /\ ErrorIs("Invalid response format"))
  /\ (Done /\ (upstream.fetch = "rejected" \/ upstream.json = "rejected"))
       => (Status = 500 /\ ErrorIs("Analysis failed"))
  /\ (Done /\ upstream.json = "resolved"
        /\ upstream.data.shape \in {"null", "noContent", "emptyContent"})
       => (Status = 500 /\ ErrorIs("Analysis failed"))
  /\ (Replied /\ Reply.t = "null") => (Status = 500 /\ ErrorIs("Analysis failed"))

\* the envelope has a content[0] that has no text
ContentWithoutText ==
  Done /\ upstream.json = "resolved" /\ upstream.data.shape = "content"
    /\ ~upstream.data.text.defined

\* C8 as stated: a non-success upstream status is answered "Analysis service
\* unavailable", a reply text that is not JSON "Invalid response format", and
\* every exception (network failure, unreadable envelope, envelope without
\* content[0].text, reply that parses to null) "Analysis failed"; each request
\* is answered exactly once.
C8_MissingTextIsAnalysisFailed ==
  /\ AnsweredOnce
  /\ FailuresClassified
  /\ ContentWithoutText => (Status = 500 /\ ErrorIs("Analysis failed"))

\* C8 amended: as stated, except that only an envelope without content[0]
\* (null, no content, empty content) is answered "Analysis failed"; an envelope
\* whose content[0] has no text is answered "Invalid response format".
C8_MissingTextIsInvalidFormat ==
  /\ AnsweredOnce
  /\ FailuresClassified
  /\ ContentWithoutText => (Status = 500 /\ ErrorIs("Invalid response format"))

\* an envelope with content[0] but no text was answered
C8_Witness == ContentWithoutText /\ Status = 500 /\ Len(responses) = 1

\* the required name field and the calorie field of the request's type
NameField == IF ReqType.s = "workout" THEN "activity" ELSE "food"

CalorieField == IF ReqType.s = "workout" THEN "calories_burned" ELSE "calories"

CalorieCap == IF ReqType.s = "workout" THEN 2000 ELSE 3000

InvalidData == IF ReqType.s = "workout" THEN "Invalid workout data" ELSE "Invalid food data"

\* C9: a 200 body is an object with a truthy error, or (workout) a truthy
\* activity and a numeric calories_burned, or (food) a truthy food and a
\* numeric calories; a parsed reply without an error that lacks the name field
\* or a numeric calorie field is answered 500 "Invalid workout data" /
\* "Invalid food data"; a 200 body is the reply with at most the calorie
\* field lowered to its cap.
C9_ResultShape ==
  /\ (Done /\ Status = 200) =>
       /\ Replied
       /\ Body.t = "object"
       /\ \/ Truthy(Get(Body, "error"))
          \/ Truthy(Get(Body, NameField)) /\ IsNumber(Get(Body, CalorieField))
       /\ DOMAIN Body.o = DOMAIN Reply.o
       /\ \A k \in DOMAIN Reply.o :
            IF k = CalorieField /\ HasNoError(Reply) /\ Reply.o[k].n > CalorieCap
            THEN Body.o[k] = Num(CalorieCap)
            ELSE Body.o[k] = Reply.o[k]
  /\ (Replied /\ Reply.t # "null" /\ HasNoError(Reply)
        /\ (~Truthy(Get(Reply, NameField)) \/ ~IsNumber(Get(Reply, CalorieField))))
       => (Status = 500 /\ ErrorIs(InvalidData))

\* a clamped workout result that kept its duration_minutes
C9_Witness ==
  /\ Replied /\ Status = 200 /\ ReqType.s = "workout"
  /\ Get(Reply, "calories_burned").n > 2000
  /\ Get(Body, "duration_minutes") = Num(30)
  /\ Get(Body, "activity") = Get(Reply, "activity")

\* C10: the sanitized text embedded in the prompt has no blocklisted substring
\* (in any letter case), none of the characters < > { } [ ] \, at most 200
\* characters, and sanitizing it again changes nothing.
C10_SanitizedHasNoBlocklistedTerm ==
  upstreamCalls # <<>> =>
    /\ Embedded = sanitized
    /\ ~Blocklisted(Embedded)
    /\ \A i \in 1..Len(Embedded) : Embedded[i] \notin {"<", ">", "{", "}", "[", "]", "\\"}
    /\ Len(Embedded) <= 200
    /\ sanitizeInput(Embedded) = Embedded

====
